---- MODULE Spec2Model ----
(***************************************************************************)
(* Growth engine of the road generator (class InfiniteCityGenerator) in    *)
(* its three source variants:                                              *)
(*   "unplanned" : src/normal_city_unplanned.py                            *)
(*   "enhance"   : src/normal_city_unplanned_enhance.py                    *)
(*   "suburbs"   : src/Simcity_surburbs.py                                 *)
(*                                                                         *)
(* Geometry is exact integer arithmetic.  One length unit is               *)
(* min_distance / 20, so min_distance = 0.03 is the integer 20 and the     *)
(* radii of the ladder (multiples of min_distance / 4) are integers.  A    *)
(* direction is a triple <<cx, cy, cz>> with cx^2 + cy^2 = cz^2, standing  *)
(* for the angle whose cosine is cx/cz and whose sine is cy/cz.  Distances *)
(* are compared through their squares.                                     *)
(***************************************************************************)
EXTENDS Integers, Sequences, FiniteSets, TLC

VARIABLES
    variant,           \* which source file is running
    node_positions,    \* NodeID -> <<x, y>>
    position_to_node,  \* <<x, y>> -> NodeID (unplanned only)
    road_ages,         \* <<a, b>> -> creation time
    growth_queue,      \* deque of NodeID
    current_time,
    kd_tree,           \* positions the KDTree was built from; <<>> is None
    kd_tree_dirty,     \* lazy-rebuild flag (enhance, suburbs)
    steps,             \* history: number of grow_city() calls so far
    calls,             \* history: per call, what it did and the node it popped or pushed
    last               \* history: what the last call did

vars == <<variant, node_positions, position_to_node, road_ages, growth_queue,
          current_time, kd_tree, kd_tree_dirty, steps, calls, last>>

\* ------------------------------------------------------------------ bounds
MaxSteps == 5
MaxNodes == 4

\* --------------------------------------------------------------- constants
Variants == {"unplanned", "enhance", "suburbs"}

\* self.min_distance = 0.03, in model units
min_distance == 20

\* self.grid_size = self.min_distance
grid_size == min_distance

\* if node_id % 10 == 0: self._update_spatial_index()
RebuildEvery == 10

\* angles drawn by the random source (uniform angle, or cardinal + normal noise)
Dirs == { <<1, 0, 1>>, <<-1, 0, 1>>, <<4, 3, 5>> }

\* range(random.randint(1, 3)) / range(self.rng.integers(1, 4))
AttemptCountsWide == 1..4
AttemptCounts == 1..3

\* self._add_node((0.0, 0.0))
Origin == <<0, 0>>

NoPos == <<>>
NoNode == -1

\* the element of a one-element set; Only({F(x) : x \in {e}}) is F applied to
\* the value of e, a local variable computed once
Only(S) == CHOOSE out \in S : TRUE

\* ---------------------------------------------------------------- geometry
SqDist(p, q) == (p[1] - q[1]) * (p[1] - q[1]) + (p[2] - q[2]) * (p[2] - q[2])

\* Python round(): nearest integer to p/q (q > 0), ties to the even one
RoundHalfEven(p, q) ==
    LET f == p \div q
        r == p - f * q
    IN  IF 2 * r < q THEN f
        ELSE IF 2 * r > q THEN f + 1
        ELSE IF f % 2 = 0 THEN f ELSE f + 1

\* np.linspace(min_distance, 2*min_distance, 5 or 3), in quarters of min_distance
RadiiLong(v) == IF v = "suburbs" THEN <<4, 6, 8, 12>> ELSE <<4, 5, 6, 7, 8, 12>>
Radii(v) == IF v = "suburbs" THEN <<4, 6, 8>> ELSE <<4, 5, 6, 7, 8>>

\* base_pos + distance * (cos(angle), sin(angle))
RawPosition(base, n, dir) ==
    << base[1] + (min_distance * n * dir[1]) \div (4 * dir[3]),
       base[2] + (min_distance * n * dir[2]) \div (4 * dir[3]) >>

\* _snap_to_grid applied to base_pos + distance * (cos, sin)
SnapToGrid(base, n, dir) ==
    LET q == 4 * dir[3] * grid_size
    IN  << RoundHalfEven(base[1] * 4 * dir[3] + min_distance * n * dir[1], q) * grid_size,
           RoundHalfEven(base[2] * 4 * dir[3] + min_distance * n * dir[2], q) * grid_size >>

Candidate(v, base, n, dir) ==
    IF v = "suburbs" THEN SnapToGrid(base, n, dir) ELSE RawPosition(base, n, dir)

\* ----------------------------------------------------------- spatial index
Min(S) == CHOOSE x \in S : \A y \in S : x <= y

\* self.kd_tree.query([pos], k=1): squared distance and index of the nearest point
NearestDist2(tree, pos) == Min({SqDist(tree[i], pos) : i \in DOMAIN tree})
NearestIdx(tree, pos) ==
    Min({i \in DOMAIN tree : SqDist(tree[i], pos) = NearestDist2(tree, pos)})

\* distance >= min_distance, or distance >= min_distance * 0.9
FarEnough(v, d2) ==
    IF v = "suburbs" THEN 100 * d2 >= 81 * min_distance * min_distance
    ELSE d2 >= min_distance * min_distance

\* dist[0] < self.min_distance * 0.5
MergeCloseWide(d2) == 4 * d2 < 9 * min_distance * min_distance
MergeClose(d2) == 4 * d2 < min_distance * min_distance

\* _update_spatial_index
UpdateSpatialIndex(s) ==
    [s EXCEPT !.kd_tree = IF DOMAIN s.node_positions # {} THEN s.node_positions ELSE @,
              !.kd_tree_dirty = FALSE]

\* if self.kd_tree_dirty: self._update_spatial_index()
Refresh(v, s) ==
    IF v # "unplanned" /\ s.kd_tree_dirty THEN UpdateSpatialIndex(s) ELSE s

\* bookkeeping of one kd_tree.query: was the tree behind the node store?
Queried(s) ==
    [s EXCEPT !.queries = @ + 1,
              !.stale = IF s.kd_tree = s.node_positions THEN @ ELSE @ + 1]

\* _is_valid_position: the state it leaves and its result
IsValidPosition(v, s, pos) ==
    LET Check(s1) ==
            IF DOMAIN s1.kd_tree = {}
            THEN [st |-> s1, ok |-> TRUE]
            ELSE [st |-> Queried(s1), ok |-> FarEnough(v, NearestDist2(s1.kd_tree, pos))]
    IN  Only({Check(x) : x \in {Refresh(v, s)}})

\* _find_valid_position: the radii are tried in order from index i on
RECURSIVE FindValidPosition(_, _, _, _, _)
FindValidPosition(v, s, base, dir, i) ==
    IF i > Len(Radii(v))
    THEN [st |-> s, pos |-> NoPos]
    ELSE LET At(new_pos) ==
                 LET Try(r) == IF r.ok THEN [st |-> r.st, pos |-> new_pos]
                               ELSE FindValidPosition(v, r.st, base, dir, i + 1)
                 IN  Only({Try(x) : x \in {IsValidPosition(v, s, new_pos)}})
         IN  Only({At(x) : x \in {Candidate(v, base, Radii(v)[i], dir)}})

\* ------------------------------------------------------------ network graph
\* d[k] = val on a dict
Put(f, k, val) == [x \in DOMAIN f \cup {k} |-> IF x = k THEN val ELSE f[x]]

\* node_id = len(self.node_positions)
NextIdSkipping(s) == Cardinality(DOMAIN s.node_positions) + 1
NextId(s) == Cardinality(DOMAIN s.node_positions)

\* _add_node: the state it leaves and the id it returns (NoNode for None)
AddNodePushTwice(v, s, pos) ==
    LET Insert(r) ==
            LET node_id == NextId(r.st)
                s2 == [r.st EXCEPT
                         !.node_positions = Put(@, node_id, pos),
                         !.position_to_node =
                             IF v = "unplanned" THEN Put(@, pos, node_id) ELSE @,
                         !.growth_queue = Append(Append(@, node_id), node_id),
                         !.kd_tree_dirty = (v # "unplanned")]
            IN  IF ~r.ok THEN [st |-> [r.st EXCEPT !.rejected = @ + 1], id |-> NoNode]
                ELSE IF v = "unplanned" /\ node_id % RebuildEvery = 0
                THEN [st |-> UpdateSpatialIndex(s2), id |-> node_id]
                ELSE [st |-> s2, id |-> node_id]
    IN  Only({Insert(x) : x \in {IsValidPosition(v, s, pos)}})
AddNode(v, s, pos) ==
    LET Insert(r) ==
            LET node_id == NextId(r.st)
                s2 == [r.st EXCEPT
                         !.node_positions = Put(@, node_id, pos),
                         !.position_to_node =
                             IF v = "unplanned" THEN Put(@, pos, node_id) ELSE @,
                         !.growth_queue = Append(@, node_id),
                         !.kd_tree_dirty = (v # "unplanned")]
            IN  IF ~r.ok THEN [st |-> [r.st EXCEPT !.rejected = @ + 1], id |-> NoNode]
                ELSE IF v = "unplanned" /\ node_id % RebuildEvery = 0
                THEN [st |-> UpdateSpatialIndex(s2), id |-> node_id]
                ELSE [st |-> s2, id |-> node_id]
    IN  Only({Insert(x) : x \in {IsValidPosition(v, s, pos)}})

\* road_id = (min(node1, node2), max(node1, node2))
RoadIdRaw(node1, node2) == <<node1, node2>>
RoadId(node1, node2) == IF node1 < node2 THEN <<node1, node2>> ELSE <<node2, node1>>

\* _add_road
AddRoadOverwrite(s, node1, node2) ==
    IF node1 = node2 THEN s
    ELSE [s EXCEPT !.road_ages = Put(@, RoadId(node1, node2), s.current_time)]
AddRoad(s, node1, node2) ==
    IF node1 = node2 THEN s
    ELSE IF RoadId(node1, node2) \notin DOMAIN s.road_ages
    THEN [s EXCEPT !.road_ages = Put(@, RoadId(node1, node2), s.current_time)]
    ELSE [s EXCEPT !.readd = @ + 1]

\* ------------------------------------------------------------ growth engine
\* new_node = self._add_node(new_pos); if new_node is not None: self._add_road(...)
CreateNoLink(v, s, node_id, new_pos) == AddNode(v, s, new_pos).st
CreateAndLink(v, s, node_id, new_pos) ==
    LET Link(a) == IF a.id # NoNode THEN AddRoad(a.st, node_id, a.id) ELSE a.st
    IN  Only({Link(x) : x \in {AddNode(v, s, new_pos)}})

\* body of the for loop in grow_city: one growth attempt from node_id at pos
AttemptLinkNearest(v, s, node_id, pos, dir) ==
    LET far == Candidate(v, pos, Radii(v)[Len(Radii(v))], dir)
        Use(f) ==
            LET MergeOrCreate(s1) ==
                    IF MergeClose(NearestDist2(s1.kd_tree, f.pos))
                    THEN AddRoad([s1 EXCEPT !.merges = @ + 1], node_id,
                                 NearestIdx(s1.kd_tree, f.pos))
                    ELSE CreateAndLink(v, s1, node_id, f.pos)
            IN  IF f.pos = NoPos
                THEN AddRoad([f.st EXCEPT !.failed = @ + 1], node_id,
                             NearestIdx(f.st.node_positions, far))
                ELSE IF v = "unplanned"
                THEN IF f.pos \in DOMAIN f.st.position_to_node
                     THEN AddRoad([f.st EXCEPT !.merges = @ + 1], node_id,
                                  f.st.position_to_node[f.pos])
                     ELSE CreateAndLink(v, f.st, node_id, f.pos)
                ELSE Only({MergeOrCreate(x) : x \in {Queried(Refresh(v, f.st))}})
    IN  Only({Use(x) : x \in {FindValidPosition(v, s, pos, dir, 1)}})
Attempt(v, s, node_id, pos, dir) ==
    LET Use(f) ==
            LET MergeOrCreate(s1) ==
                    IF MergeClose(NearestDist2(s1.kd_tree, f.pos))
                    THEN AddRoad([s1 EXCEPT !.merges = @ + 1], node_id,
                                 NearestIdx(s1.kd_tree, f.pos))
                    ELSE CreateAndLink(v, s1, node_id, f.pos)
            IN  IF f.pos = NoPos THEN [f.st EXCEPT !.failed = @ + 1]
                ELSE IF v = "unplanned"
                THEN IF f.pos \in DOMAIN f.st.position_to_node
                     THEN AddRoad([f.st EXCEPT !.merges = @ + 1], node_id,
                                  f.st.position_to_node[f.pos])
                     ELSE CreateAndLink(v, f.st, node_id, f.pos)
                ELSE Only({MergeOrCreate(x) : x \in {Queried(Refresh(v, f.st))}})
    IN  Only({Use(x) : x \in {FindValidPosition(v, s, pos, dir, 1)}})

\* the for loop of grow_city over the angles drawn, from attempt i on
RECURSIVE Attempts(_, _, _, _, _, _)
Attempts(v, s, node_id, pos, angles, i) ==
    IF i > Len(angles) THEN s
    ELSE Attempts(v, Attempt(v, s, node_id, pos, angles[i]), node_id, pos, angles, i + 1)

\* self.current_time += 1
Tick(t) == t + 1

\* grow_city with a non-empty queue: tick, popleft, then the attempts
ExpandTickAfter(v, s, angles) ==
    LET node_id == Head(s.growth_queue)
        s1 == [s EXCEPT !.growth_queue = Tail(@), !.popped = node_id]
        s2 == Attempts(v, s1, node_id, s1.node_positions[node_id], angles, 1)
    IN  [s2 EXCEPT !.current_time = Tick(@)]
ExpandPeek(v, s, angles) ==
    LET node_id == Head(s.growth_queue)
        s1 == [s EXCEPT !.current_time = Tick(@), !.popped = node_id]
    IN  Attempts(v, s1, node_id, s1.node_positions[node_id], angles, 1)
ExpandLifo(v, s, angles) ==
    LET node_id == s.growth_queue[Len(s.growth_queue)]
        s1 == [s EXCEPT !.current_time = Tick(@),
                        !.growth_queue = SubSeq(@, 1, Len(@) - 1),
                        !.popped = node_id]
    IN  Attempts(v, s1, node_id, s1.node_positions[node_id], angles, 1)
ExpandTickPerAttempt(v, s, angles) ==
    LET node_id == Head(s.growth_queue)
        s1 == [s EXCEPT !.current_time = @ + Len(angles), !.growth_queue = Tail(@),
                        !.popped = node_id]
    IN  Attempts(v, s1, node_id, s1.node_positions[node_id], angles, 1)
Expand(v, s, angles) ==
    LET node_id == Head(s.growth_queue)
        s1 == [s EXCEPT !.current_time = Tick(@), !.growth_queue = Tail(@),
                        !.popped = node_id]
    IN  Attempts(v, s1, node_id, s1.node_positions[node_id], angles, 1)

\* grow_city with an empty queue: reseed with one existing node id
RecoverNothing(s, pick) == s
RecoverOffByOne(s, pick) ==
    IF DOMAIN s.node_positions # {}
    THEN [s EXCEPT !.growth_queue = Append(@, pick + 1)]
    ELSE s
Recover(s, pick) ==
    IF DOMAIN s.node_positions # {}
    THEN [s EXCEPT !.growth_queue = Append(@, pick)]
    ELSE s

\* ---------------------------------------------------------- state machine
Counters == [queries |-> 0, stale |-> 0, readd |-> 0, merges |-> 0,
             rejected |-> 0, failed |-> 0, popped |-> NoNode]

\* the fields set by __init__ before its _add_node call
Blank ==
    [node_positions |-> <<>>, position_to_node |-> <<>>, road_ages |-> <<>>,
     growth_queue |-> <<>>, current_time |-> 0, kd_tree |-> <<>>,
     kd_tree_dirty |-> FALSE] @@ Counters

\* the object as the record the operators above work on
Self ==
    [node_positions |-> node_positions, position_to_node |-> position_to_node,
     road_ages |-> road_ages, growth_queue |-> growth_queue,
     current_time |-> current_time, kd_tree |-> kd_tree,
     kd_tree_dirty |-> kd_tree_dirty] @@ Counters

Store(s) ==
    /\ node_positions' = s.node_positions
    /\ position_to_node' = s.position_to_node
    /\ road_ages' = s.road_ages
    /\ growth_queue' = s.growth_queue
    /\ current_time' = s.current_time
    /\ kd_tree' = s.kd_tree
    /\ kd_tree_dirty' = s.kd_tree_dirty

Summary(kind, k, node, s) ==
    [kind |-> kind, k |-> k, node |-> node, queries |-> s.queries, stale |-> s.stale,
     readd |-> s.readd, merges |-> s.merges, rejected |-> s.rejected,
     failed |-> s.failed, nodes0 |-> Cardinality(DOMAIN node_positions),
     roads0 |-> Cardinality(DOMAIN road_ages), time0 |-> current_time]

\* __init__: self._add_node((0, 0))
Init ==
    /\ variant \in Variants
    /\ LET s == AddNode(variant, Blank, Origin).st
       IN  /\ node_positions = s.node_positions
           /\ position_to_node = s.position_to_node
           /\ road_ages = s.road_ages
           /\ growth_queue = s.growth_queue
           /\ current_time = s.current_time
           /\ kd_tree = s.kd_tree
           /\ kd_tree_dirty = s.kd_tree_dirty
           /\ last = [kind |-> "init", k |-> 0, node |-> NoNode, queries |-> s.queries,
                      stale |-> s.stale, readd |-> 0, merges |-> 0, rejected |-> s.rejected,
                      failed |-> 0, nodes0 |-> 0, roads0 |-> 0, time0 |-> 0]
    /\ steps = 0
    /\ calls = <<>>

AngleSeqs(k) == [1..k -> Dirs]

\* grow_city(), queue non-empty on entry
GrowCityExpand ==
    /\ steps < MaxSteps
    /\ growth_queue # <<>>
    /\ \E k \in AttemptCounts : \E angles \in AngleSeqs(k) :
         LET s == Expand(variant, Self, angles)
         IN  /\ Cardinality(DOMAIN s.node_positions) <= MaxNodes
             /\ Store(s)
             /\ last' = Summary("expand", k, s.popped, s)
             /\ calls' = Append(calls, [kind |-> "expand", node |-> s.popped])
    /\ steps' = steps + 1
    /\ UNCHANGED variant

\* grow_city(), queue empty on entry
GrowCityRecover ==
    /\ steps < MaxSteps
    /\ growth_queue = <<>>
    /\ \E pick \in DOMAIN node_positions :
         LET s == Recover(Self, pick)
         IN  /\ Store(s)
             /\ last' = Summary("recover", 0, pick, s)
             /\ calls' = Append(calls, [kind |-> "recover", node |-> pick])
    /\ steps' = steps + 1
    /\ UNCHANGED variant

Next == GrowCityExpand \/ GrowCityRecover

Spec == Init /\ [][Next]_vars

\* ------------------------------------------------------------- properties
node_count == Cardinality(DOMAIN node_positions)
road_count == Cardinality(DOMAIN road_ages)

\* C1: every two distinct nodes are at distance >= reject_distance
\* (min_distance in unplanned and enhance, 0.9 x min_distance in suburbs).
SpacingInvariant ==
    \A i, j \in DOMAIN node_positions :
        i # j => FarEnough(variant, SqDist(node_positions[i], node_positions[j]))

\* C2: current_time never decreases; a call that finds the queue non-empty
\* adds exactly 1, a call that finds it empty adds 0.
MonotonicClock ==
    [][ /\ current_time' >= current_time
        /\ growth_queue # <<>> => current_time' = current_time + 1
        /\ growth_queue = <<>> => current_time' = current_time ]_vars

\* a recovery call made after three dequeuing calls, the last of them with
\* every attempt failed or merged
MonotonicClockWitness ==
    /\ last.kind = "recover"
    /\ current_time = 3
    /\ steps = 4

\* C3: with N >= 1 nodes and an empty queue, one call leaves exactly one
\* existing node id in the queue and changes neither nodes, roads nor clock.
RecoveryFrame ==
    [][ (growth_queue = <<>> /\ node_count >= 1) =>
          /\ Len(growth_queue') = 1
          /\ growth_queue'[1] \in DOMAIN node_positions
          /\ node_positions' = node_positions
          /\ road_ages' = road_ages
          /\ current_time' = current_time ]_vars

RecoveryWitness ==
    /\ last.kind = "recover"
    /\ node_count >= 3
    /\ Len(growth_queue) = 1
    /\ growth_queue[1] = node_count - 1

\* C4: one call makes 1, 2 or 3 attempts and adds between 0 and 3 nodes and
\* between 0 and 3 roads.
GrowthBound ==
    [][ /\ Cardinality(DOMAIN node_positions') - node_count \in 0..3
        /\ Cardinality(DOMAIN road_ages') - road_count \in 0..3
        /\ last'.kind = "expand" => last'.k \in 1..3 ]_vars

GrowthBoundWitness ==
    /\ last.kind = "expand"
    /\ last.k = 3
    /\ node_count = last.nodes0 + 3
    /\ road_count = last.roads0 + 3

\* C5: every road is stored under a pair <<a, b>> with a < b, both ids of
\* existing nodes, and no two entries name the same unordered pair.
RoadCanonical ==
    /\ \A r \in DOMAIN road_ages :
          /\ r[1] < r[2]
          /\ r[1] \in DOMAIN node_positions
          /\ r[2] \in DOMAIN node_positions
          /\ r[1] >= 0 /\ r[2] < node_count
    /\ \A r1, r2 \in DOMAIN road_ages :
          {r1[1], r1[2]} = {r2[1], r2[2]} => r1 = r2

\* node 2 was expanded and linked itself to the older node 1: the call
\* add_road(2, 1) created the road stored as <<1, 2>>
RoadCanonicalWitness ==
    /\ last.kind = "expand"
    /\ last.node = 2
    /\ last.readd = 0
    /\ <<1, 2>> \in DOMAIN road_ages
    /\ road_ages[<<1, 2>>] = current_time

\* the timestamp of the road between a and b in roads, or none when absent
StampOf(roads, a, b, none) ==
    IF \E r \in DOMAIN roads : {r[1], r[2]} = {a, b}
    THEN roads[CHOOSE r \in DOMAIN roads : {r[1], r[2]} = {a, b}]
    ELSE none

\* C6: for distinct ids a, b, add_road(a, b) followed at the same or a later
\* clock value by add_road(a, b) or add_road(b, a) leaves exactly one road
\* for the pair, stamped by the first call; add_road(a, a) changes nothing.
AddRoadIdempotent ==
    \A a, b \in DOMAIN node_positions : \A d1 \in 0..1, d2 \in 0..2 :
        LET s0 == [Self EXCEPT !.current_time = current_time + d1]
            s1 == AddRoad(s0, a, b)
            later == [s1 EXCEPT !.current_time = s0.current_time + d2]
            s2 == AddRoad(later, a, b)
            s3 == AddRoad(later, b, a)
            first == StampOf(road_ages, a, b, s0.current_time)
        IN  IF a = b THEN s1 = s0
            ELSE /\ s2.road_ages = s1.road_ages
                 /\ s3.road_ages = s1.road_ages
                 /\ Cardinality({r \in DOMAIN s3.road_ages : {r[1], r[2]} = {a, b}}) = 1
                 /\ StampOf(s2.road_ages, a, b, -1) = first
                 /\ StampOf(s3.road_ages, a, b, -1) = first

\* grow_city itself called add_road(1, 2) at clock 2 and add_road(2, 1) at
\* clock 3 (unplanned: nodes 1 and 2 either side of the origin merge onto
\* each other), and the road keeps the stamp 2
AddRoadAgainWitness ==
    /\ last.kind = "expand"
    /\ last.node = 2
    /\ last.k = 1
    /\ last.merges = 1
    /\ last.readd = 1
    /\ current_time = 3
    /\ <<1, 2>> \in DOMAIN road_ages
    /\ road_ages[<<1, 2>>] = 2

\* C7: every nearest-neighbour query of a call reads an index built from
\* all the nodes then in the graph.
IndexNeverStale == last.stale = 0

\* C8: after exactly one call from the fresh engine, node_count is in 1..4
\* and road_count = node_count - 1, every attempt having added one node and
\* one road or nothing.
FirstStep ==
    steps = 1 =>
        /\ node_count \in 1..4
        /\ road_count = node_count - 1
        /\ node_count - 1 <= last.k
        /\ \A i \in DOMAIN node_positions : i # 0 => <<0, i>> \in DOMAIN road_ages

FirstStepWitness ==
    /\ steps = 1
    /\ last.k = 3
    /\ node_count = 4
    /\ road_count = 3

\* C9 as claimed: after n calls every node lies within n x 2 x min_distance
\* of the origin, in all three variants.
LocalityBound ==
    \A i \in DOMAIN node_positions :
        SqDist(node_positions[i], Origin)
            <= 4 * steps * steps * min_distance * min_distance

\* C9 as amended: within n x 2 x min_distance of the origin in the variants
\* that do not snap, within n x sqrt(5) x min_distance in the one that snaps.
LocalityBoundSnapped ==
    \A i \in DOMAIN node_positions :
        SqDist(node_positions[i], Origin)
            <= (IF variant = "suburbs" THEN 5 ELSE 4)
                   * steps * steps * min_distance * min_distance

\* one call of the snapping variant has put a node two cells across and one
\* cell up from the origin
LocalityWitness ==
    /\ variant = "suburbs"
    /\ steps = 1
    /\ \E i \in DOMAIN node_positions :
          node_positions[i] = <<2 * grid_size, grid_size>>

\* C10: the node ids are exactly 0 .. node_count-1, node 0 is at the origin,
\* a call gives its new nodes the ids from the previous node_count on and
\* never changes or removes the position of an existing node.
NodeIdsDense ==
    /\ DOMAIN node_positions = 0..(node_count - 1)
    /\ node_positions[0] = Origin

NodeIdentity ==
    /\ NodeIdsDense
    /\ [][ /\ NodeIdsDense'
           /\ \A i \in DOMAIN node_positions :
                 /\ i \in DOMAIN node_positions'
                 /\ node_positions'[i] = node_positions[i]
           /\ DOMAIN node_positions' \ DOMAIN node_positions
                 = node_count..(Cardinality(DOMAIN node_positions') - 1) ]_vars

NodeIdentityWitness ==
    /\ node_count = 4
    /\ steps >= 2
    /\ last.kind = "expand"
    /\ node_count > last.nodes0

\* C11: a road, once present, stays present with the same timestamp; a new
\* road is stamped with current_time as it is after the call's increment;
\* so every road has 1 <= timestamp <= current_time.
RoadsAppendOnly ==
    /\ [](\A r \in DOMAIN road_ages :
             road_ages[r] >= 1 /\ road_ages[r] <= current_time)
    /\ [][ /\ \A r \in DOMAIN road_ages :
                 r \in DOMAIN road_ages' /\ road_ages'[r] = road_ages[r]
           /\ \A r \in DOMAIN road_ages' \ DOMAIN road_ages :
                 road_ages'[r] = current_time' ]_vars

\* the last call added a road while a road of an earlier call is still there
RoadsAppendOnlyWitness ==
    /\ last.kind = "expand"
    /\ road_count > last.roads0
    /\ \E r \in DOMAIN road_ages : road_ages[r] = current_time
    /\ \E r \in DOMAIN road_ages : road_ages[r] = 1 /\ current_time >= 3

\* how often node n was popped, reseeded, and how often it is in queue q
Pops(n) == Cardinality({i \in 1..Len(calls) : calls[i] = [kind |-> "expand", node |-> n]})
Reseeds(n) == Cardinality({i \in 1..Len(calls) : calls[i] = [kind |-> "recover", node |-> n]})
Occurs(q, n) == Cardinality({i \in 1..Len(q) : q[i] = n})

\* C12: the frontier holds only ids of existing nodes and none twice; a node
\* never popped is in it exactly once; a node has been pushed once, at its
\* creation, and once more per recovery reseed, which finds the frontier empty.
FrontierMembership ==
    /\ [](/\ \A i \in 1..Len(growth_queue) : growth_queue[i] \in DOMAIN node_positions
          /\ \A n \in DOMAIN node_positions :
                /\ Occurs(growth_queue, n) <= 1
                /\ Pops(n) = 0 => Occurs(growth_queue, n) = 1
                /\ Occurs(growth_queue, n) + Pops(n) = 1 + Reseeds(n))
    /\ [][ \A n \in DOMAIN node_positions :
             Occurs(growth_queue', n) > Occurs(growth_queue, n) => growth_queue = <<>> ]_vars

\* a node that was reseeded has been popped a second time
FrontierWitness ==
    \E n \in DOMAIN node_positions : Pops(n) = 2 /\ Reseeds(n) = 1

\* positions add_node may be handed: the ladder candidates around every node
ProbePositions ==
    { Candidate(variant, node_positions[n], Radii(variant)[i], dir) :
        n \in DOMAIN node_positions, i \in 1..Len(Radii(variant)), dir \in Dirs }

\* C13 as claimed: a successful add_node leaves the frontier as it was.
AddNodeKeepsFrontier ==
    \A pos \in ProbePositions :
        LET a == AddNode(variant, Self, pos)
        IN  a.id # NoNode => a.st.growth_queue = growth_queue

\* the ids from a up to b - 1, in order
RECURSIVE IdRun(_, _)
IdRun(a, b) == IF a >= b THEN <<>> ELSE <<a>> \o IdRun(a + 1, b)

\* C13 as amended: a successful add_node stores the node under the next id,
\* appends that id to the frontier itself and (lazy variants) marks the index
\* stale; a failed one changes neither; grow_city pushes nothing of its own,
\* the frontier after a dequeuing call is its tail followed by the new ids.
AddNodePushes ==
    /\ [](\A pos \in ProbePositions :
            LET a == AddNode(variant, Self, pos)
            IN  IF a.id # NoNode
                THEN /\ a.id = node_count
                     /\ a.st.node_positions = Put(node_positions, a.id, pos)
                     /\ a.st.growth_queue = Append(growth_queue, a.id)
                     /\ variant # "unplanned" => a.st.kd_tree_dirty
                ELSE /\ a.st.node_positions = node_positions
                     /\ a.st.growth_queue = growth_queue)
    /\ [][ growth_queue # <<>> =>
             growth_queue' = Tail(growth_queue)
                 \o IdRun(node_count, Cardinality(DOMAIN node_positions')) ]_vars

\* the last call created two nodes, now the last two of the frontier
AddNodePushesWitness ==
    /\ last.kind = "expand"
    /\ node_count = last.nodes0 + 2
    /\ steps >= 2
    /\ Len(growth_queue) >= 2
    /\ growth_queue[Len(growth_queue)] = node_count - 1
    /\ growth_queue[Len(growth_queue) - 1] = node_count - 2

\* C14: a dequeuing call pops the head of the frontier and new ids go to its
\* tail; while no recovery has happened the ids popped are strictly increasing.
FifoOrder ==
    /\ []((\A i \in 1..Len(calls) : calls[i].kind = "expand") =>
            \A i, j \in 1..Len(calls) : i < j => calls[i].node < calls[j].node)
    /\ [][ growth_queue # <<>> =>
             /\ last'.node = Head(growth_queue)
             /\ Len(growth_queue') >= Len(growth_queue) - 1
             /\ SubSeq(growth_queue', 1, Len(growth_queue) - 1) = Tail(growth_queue)
             /\ \A i \in Len(growth_queue)..Len(growth_queue') :
                   growth_queue'[i] \notin DOMAIN node_positions ]_vars

\* four calls without recovery popped 0, 1, 2, 3
FifoWitness ==
    /\ Len(calls) = 4
    /\ \A i \in 1..4 : calls[i] = [kind |-> "expand", node |-> i - 1]

\* the radii of the ladder whose candidate is at least reject_distance away
\* from every node of the graph
ValidRadii(n, dir) ==
    { i \in 1..Len(Radii(variant)) :
        \A m \in DOMAIN node_positions :
            FarEnough(variant,
                      SqDist(node_positions[m],
                             Candidate(variant, node_positions[n], Radii(variant)[i], dir))) }

\* C15: the radii run evenly from min_distance to 2 x min_distance and the
\* search returns the candidate of the smallest radius that is at least
\* reject_distance away from every existing node, none exactly when no
\* radius is.
GreedyLadder ==
    /\ Radii(variant)[1] = 4
    /\ Radii(variant)[Len(Radii(variant))] = 8
    /\ \A i \in 2..Len(Radii(variant)) :
          Radii(variant)[i] - Radii(variant)[i - 1] = Radii(variant)[2] - Radii(variant)[1]
    /\ \A n \in DOMAIN node_positions, dir \in Dirs :
          LET f == FindValidPosition(variant, Self, node_positions[n], dir, 1)
              V == ValidRadii(n, dir)
          IN  IF V = {} THEN f.pos = NoPos
              ELSE f.pos = Candidate(variant, node_positions[n], Radii(variant)[Min(V)], dir)

NoMergeWhenLazy ==
    variant # "unplanned" =>
        /\ last.merges = 0
        /\ last.rejected = 0
        /\ last.stale = 0
        /\ last.kind = "expand" =>
              /\ node_count - last.nodes0 = last.k - last.failed
              /\ road_count - last.roads0 = last.k - last.failed

\* a call of a lazy variant with two attempts that created and one that failed
NoMergeWitness ==
    /\ variant # "unplanned"
    /\ last.kind = "expand"
    /\ last.k = 3
    /\ last.failed = 1
    /\ node_count = last.nodes0 + 2

\* the nodes joined to those of S by roads
RECURSIVE ReachFrom(_)
ReachFrom(S) ==
    LET N == S \cup { x \in DOMAIN node_positions :
                        \E y \in S : <<x, y>> \in DOMAIN road_ages
                                     \/ <<y, x>> \in DOMAIN road_ages }
    IN  IF N = S THEN S ELSE ReachFrom(N)

\* C19: in the lazily rebuilt variants the roads form a tree: road_count =
\* node_count - 1, every node but 0 has exactly one road to a smaller id,
\* which is the node expanded by the call that created it, and every node
\* is joined to node 0.
TreeWhenLazy ==
    /\ [](variant # "unplanned" =>
            /\ road_count = node_count - 1
            /\ \A i \in DOMAIN node_positions \ {0} :
                  Cardinality({j \in DOMAIN node_positions :
                                  j < i /\ <<j, i>> \in DOMAIN road_ages}) = 1
            /\ ReachFrom({0}) = DOMAIN node_positions)
    /\ [][ variant # "unplanned" =>
             \A i \in DOMAIN node_positions' \ DOMAIN node_positions :
                 <<last'.node, i>> \in DOMAIN road_ages' ]_vars

\* a lazy variant with four nodes, one of them hanging off node 1
TreeWitness ==
    /\ variant # "unplanned"
    /\ node_count = 4
    /\ \E i \in DOMAIN node_positions : <<1, i>> \in DOMAIN road_ages

\* C20: a call that finds the frontier empty leaves it non-empty, so no two
\* consecutive calls are recovery-only, and after n calls current_time >=
\* floor(n / 2).
NoDoubleRecovery ==
    /\ [](current_time >= steps \div 2)
    /\ [][ /\ growth_queue = <<>> => growth_queue' # <<>>
           /\ last.kind = "recover" => last'.kind = "expand" ]_vars

\* a recovery call followed by a dequeuing call
NoDoubleRecoveryWitness ==
    /\ Len(calls) >= 2
    /\ calls[Len(calls) - 1].kind = "recover"
    /\ calls[Len(calls)].kind = "expand"
    /\ current_time = steps - 1

\* ------------------------------------------------- unbounded run of calls
\* main(): while True: ... generator.grow_city().  The calls go on forever,
\* so steps and calls are left alone and the clock and the road stamps, which
\* growth never reads, are forgotten.  A call is followed through its loop:
\* while it runs, last.node is the node it dequeued and last.k the attempts
\* it has left.
LiveNodes == 4

Forget(s) ==
    [s EXCEPT !.current_time = 0, !.road_ages = [r \in DOMAIN @ |-> 0]]

\* grow_city(), queue non-empty on entry: tick, popleft, draw the attempt count
LivePop ==
    /\ last.k = 0
    /\ growth_queue # <<>>
    /\ \E k \in AttemptCounts :
         last' = [last EXCEPT !.k = k, !.node = Head(growth_queue)]
    /\ growth_queue' = Tail(growth_queue)
    /\ current_time' = Forget([Self EXCEPT !.current_time = Tick(@)]).current_time
    /\ UNCHANGED <<variant, node_positions, position_to_node, road_ages, kd_tree,
                   kd_tree_dirty, steps, calls>>

\* one pass of the loop "for _ in range(attempts)"
LiveAttempt ==
    /\ last.k > 0
    /\ \E dir \in Dirs :
         \E s \in {Forget(Attempt(variant, Self, last.node,
                                  node_positions[last.node], dir))} :
             /\ Cardinality(DOMAIN s.node_positions) <= LiveNodes
             /\ Store(s)
    /\ last' = [last EXCEPT !.k = @ - 1, !.node = IF last.k = 1 THEN NoNode ELSE @]
    /\ UNCHANGED <<variant, steps, calls>>

\* grow_city(), queue empty on entry, the random source drawing pick
LiveRecover(pick) ==
    /\ last.k = 0
    /\ growth_queue = <<>>
    /\ pick \in DOMAIN node_positions
    /\ \E s \in {Recover(Self, pick)} : Store(s)
    /\ UNCHANGED <<variant, steps, calls, last>>

\* an attempt that adds a node
LiveGrow == LiveAttempt /\ DOMAIN node_positions' # DOMAIN node_positions

LiveNext ==
    \/ LivePop
    \/ LiveAttempt
    \/ \E pick \in 0..(LiveNodes - 1) : LiveRecover(pick)

\* The driver never stops calling; a draw of the random source that is
\* possible again and again (a recovery node, an attempt angle that hits
\* free space) is eventually made.
LiveSpec ==
    /\ Init
    /\ [][LiveNext]_vars
    /\ WF_vars(LiveNext)
    /\ SF_vars(LiveGrow)
    /\ \A pick \in 0..(LiveNodes - 1) : SF_vars(LiveRecover(pick))

\* C17: from every state with fewer than LiveNodes nodes later calls add
\* nodes until LiveNodes of them exist.
GrowthNeverStalls == (node_count < LiveNodes) ~> (node_count = LiveNodes)

\* between two calls the frontier is empty after some growth, with room left
GrowthNeverStallsWitness ==
    /\ last.k = 0
    /\ growth_queue = <<>>
    /\ node_count > 1
    /\ node_count < LiveNodes

====
